---- MODULE Spec2Model ----
(***************************************************************************)
(* Model of Static/JavaScript/contact.js: the contact form's submit        *)
(* handler and the DOMContentLoaded handler that animates the progress     *)
(* bars, run by a browser event loop (one callback at a time).             *)
(*                                                                         *)
(* A string is a sequence of characters; a status text and a style width   *)
(* are TLA+ strings because the script only assigns and copies them.       *)
(***************************************************************************)
EXTENDS Integers, Sequences, FiniteSets, TLC

\* ---------------------------------------------------------------- bounds
\* Characters the three fields hold together.
MaxChars == 4
\* Progress elements in the document.
MaxBars == 2

\* ------------------------------------------------------------- constants
Chars == {" ", "a"}
WhiteSpace == {" "}
Widths == {"", "40%", "75%"}
FailText == "Please fill in all fields."
ThanksText == "Thank you for reaching out!"
ZeroWidth == "0%"
Delay == 300
FieldIds == {"name", "email", "message"}

VARIABLES
  hasForm,          \* an element with id "contact-form" exists when the script runs
  pc,               \* the script: "start", "done" (both listeners attached), "error"
  submitListener,   \* the submit listener is attached to the form
  readyListener,    \* the DOMContentLoaded listener is attached to the document
  readyFired,       \* the document's DOMContentLoaded event has been dispatched
  fields,           \* value of the inputs "name", "email", "message"
  status,           \* textContent of the element "form-message"
  defaultSubmitted, \* the browser performed the form's default submission
  configured,       \* style.width of each .progress element as the page set it
  width,            \* current style.width of each .progress element
  timers,           \* the timer table: one record per setTimeout call
  now               \* the event loop's clock, in milliseconds

vars == <<hasForm, pc, submitListener, readyListener, readyFired, fields,
          status, defaultSubmitted, configured, width, timers, now>>

\* ----------------------------------------------------------- strings
RECURSIVE TrimStart(_)
TrimStart(s) ==
  IF s # <<>> /\ Head(s) \in WhiteSpace THEN TrimStart(Tail(s)) ELSE s

RECURSIVE TrimEnd(_)
TrimEnd(s) ==
  IF s # <<>> /\ s[Len(s)] \in WhiteSpace
    THEN TrimEnd(SubSeq(s, 1, Len(s) - 1))
    ELSE s

\* String.prototype.trim
Trim(s) == TrimEnd(TrimStart(s))

\* !x for a string x
Falsy(s) == s = <<>>

\* ------------------------------------------------------- the document
\* The part of the document the handlers can read or write.
Doc == [fields |-> fields, status |-> status, width |-> width,
        timers |-> timers]

\* Default value of every control of the form (what form.reset() restores).
FormDefault == [f \in FieldIds |-> <<>>]

\* HTMLFormElement.reset()
FormReset(doc) == [doc EXCEPT !.fields = FormDefault]

\* ------------------------------------------------- the submit handler
\* Variant: the values are compared without trim().
SubmitHandlerNoTrim(doc) ==
  LET name == doc.fields["name"]
      email == doc.fields["email"]
      message == doc.fields["message"]
  IN IF Falsy(name) \/ Falsy(email) \/ Falsy(message)
       THEN [doc |-> [doc EXCEPT !.status = FailText],
             defaultPrevented |-> TRUE]
       ELSE [doc |-> FormReset([doc EXCEPT !.status = ThanksText]),
             defaultPrevented |-> TRUE]

\* Variant: the third operand lost its negation (`!name || !email || message`).
SubmitHandlerMissingNot(doc) ==
  LET name == Trim(doc.fields["name"])
      email == Trim(doc.fields["email"])
      message == Trim(doc.fields["message"])
  IN IF Falsy(name) \/ Falsy(email) \/ ~Falsy(message)
       THEN [doc |-> [doc EXCEPT !.status = FailText],
             defaultPrevented |-> TRUE]
       ELSE [doc |-> FormReset([doc EXCEPT !.status = ThanksText]),
             defaultPrevented |-> TRUE]

\* Variant: preventDefault() is called on the failure path only.
SubmitHandlerLatePrevent(doc) ==
  LET name == Trim(doc.fields["name"])
      email == Trim(doc.fields["email"])
      message == Trim(doc.fields["message"])
  IN IF Falsy(name) \/ Falsy(email) \/ Falsy(message)
       THEN [doc |-> [doc EXCEPT !.status = FailText],
             defaultPrevented |-> TRUE]
       ELSE [doc |-> FormReset([doc EXCEPT !.status = ThanksText]),
             defaultPrevented |-> FALSE]

\* Variant: a successful submit also restarts the progress animation's
\* starting point.
SubmitHandlerResetsBars(doc) ==
  LET name == Trim(doc.fields["name"])
      email == Trim(doc.fields["email"])
      message == Trim(doc.fields["message"])
  IN IF Falsy(name) \/ Falsy(email) \/ Falsy(message)
       THEN [doc |-> [doc EXCEPT !.status = FailText],
             defaultPrevented |-> TRUE]
       ELSE [doc |-> FormReset([doc EXCEPT
                        !.status = ThanksText,
                        !.width = [b \in DOMAIN doc.width |-> ZeroWidth]]),
             defaultPrevented |-> TRUE]

\* Result: the document after the handler and the event's defaultPrevented.
SubmitHandler(doc) ==
  LET name == Trim(doc.fields["name"])
      email == Trim(doc.fields["email"])
      message == Trim(doc.fields["message"])
  IN IF Falsy(name) \/ Falsy(email) \/ Falsy(message)
       THEN [doc |-> [doc EXCEPT !.status = FailText],
             defaultPrevented |-> TRUE]
       ELSE [doc |-> FormReset([doc EXCEPT !.status = ThanksText]),
             defaultPrevented |-> TRUE]

\* --------------------------------------------------- the ready handler
\* setTimeout(callback, delay): a new pending entry of the timer table; the
\* callback's closure holds the element and the captured width.
SetTimeout(doc, bar, w, delay, t) ==
  [doc EXCEPT !.timers = Append(@, [bar |-> bar, width |-> w,
                                    due |-> t + delay, fired |-> FALSE])]

\* Variant: the width is read after it was set to zero.
ForEachBodyLateCapture(doc, bar, t) ==
  LET reset == [doc EXCEPT !.width[bar] = ZeroWidth]
      w == reset.width[bar]
  IN SetTimeout(reset, bar, w, Delay, t)

\* Variant: the restoring callback is scheduled twice.
ForEachBodyTwice(doc, bar, t) ==
  LET w == doc.width[bar]
      reset == [doc EXCEPT !.width[bar] = ZeroWidth]
  IN SetTimeout(SetTimeout(reset, bar, w, Delay, t), bar, w, Delay, t)

\* The body of bars.forEach's callback for one element.
ForEachBody(doc, bar, t) ==
  LET w == doc.width[bar]
      reset == [doc EXCEPT !.width[bar] = ZeroWidth]
  IN SetTimeout(reset, bar, w, Delay, t)

\* NodeList.forEach: the elements in document order, from index i on.
RECURSIVE ForEach(_, _, _, _)
ForEach(doc, bars, i, t) ==
  IF i > Len(bars) THEN doc
  ELSE ForEach(ForEachBody(doc, bars[i], t), bars, i + 1, t)

\* document.querySelectorAll('.progress'): the elements in document order.
QuerySelectorAll(doc) == [i \in 1..Len(doc.width) |-> i]

\* Variant: one more timer is scheduled after the loop.
ReadyHandlerExtraTimer(doc, t) ==
  SetTimeout(ForEach(doc, QuerySelectorAll(doc), 1, t), 0, "", Delay, t)

\* Variant: `width` is one function-scoped variable shared by every closure,
\* so each callback sees the value the last iteration stored.
ReadyHandlerSharedWidth(doc, t) ==
  LET d == ForEach(doc, QuerySelectorAll(doc), 1, t)
      n == Len(d.timers)
  IN [d EXCEPT !.timers =
        [i \in 1..n |-> [d.timers[i] EXCEPT !.width = d.timers[n].width]]]

\* The DOMContentLoaded listener.
ReadyHandler(doc, t) == ForEach(doc, QuerySelectorAll(doc), 1, t)

\* Variant: the callback also clears the form's status text.
TimerCallbackClearsStatus(doc, tm) ==
  [doc EXCEPT !.width[tm.bar] = tm.width, !.status = ""]

\* The callback of one timer.
TimerCallback(doc, tm) == [doc EXCEPT !.width[tm.bar] = tm.width]

\* ------------------------------------------------------ the script
\* Variant: the first statement uses optional chaining and does not throw.
RunScriptResultNoThrow(formPresent) ==
  [pc |-> "done", submitListener |-> formPresent, readyListener |-> TRUE]

\* Top-level statements: the first throws when the form is absent, and the
\* second is then never executed.
RunScriptResult(formPresent) ==
  IF formPresent
    THEN [pc |-> "done", submitListener |-> TRUE, readyListener |-> TRUE]
    ELSE [pc |-> "error", submitListener |-> FALSE, readyListener |-> FALSE]

\* ------------------------------------------------------------ states
Strings == UNION {[1..n -> Chars] : n \in 0..MaxChars}

TotalLen(fs) == Len(fs["name"]) + Len(fs["email"]) + Len(fs["message"])

Init ==
  /\ hasForm \in BOOLEAN
  /\ pc = "start"
  /\ submitListener = FALSE
  /\ readyListener = FALSE
  /\ readyFired = FALSE
  /\ fields = FormDefault
  /\ status = ""
  /\ defaultSubmitted = FALSE
  /\ configured \in UNION {[1..n -> Widths] : n \in 0..MaxBars}
  /\ width = configured
  /\ timers = <<>>
  /\ now = 0

SetDoc(doc) ==
  /\ fields' = doc.fields
  /\ status' = doc.status
  /\ width' = doc.width
  /\ timers' = doc.timers

\* The script element is executed.
RunScript ==
  /\ pc = "start"
  /\ LET r == RunScriptResult(hasForm)
     IN /\ pc' = r.pc
        /\ submitListener' = r.submitListener
        /\ readyListener' = r.readyListener
  /\ UNCHANGED <<hasForm, readyFired, fields, status, defaultSubmitted,
                 configured, width, timers, now>>

\* The user types a character at the end of a field or deletes its last one.
Edit ==
  /\ hasForm
  /\ \E f \in FieldIds :
       \/ \E c \in Chars :
            /\ TotalLen(fields) < MaxChars
            /\ fields' = [fields EXCEPT ![f] = Append(@, c)]
       \/ /\ fields[f] # <<>>
          /\ fields' = [fields EXCEPT ![f] = SubSeq(@, 1, Len(@) - 1)]
  /\ UNCHANGED <<hasForm, pc, submitListener, readyListener, readyFired,
                 status, defaultSubmitted, configured, width, timers, now>>

\* A submit event is dispatched at the form; the browser performs the
\* default submission afterwards unless the event's default was prevented.
Submit ==
  /\ submitListener
  /\ LET r == SubmitHandler(Doc)
     IN /\ SetDoc(r.doc)
        /\ defaultSubmitted' = (defaultSubmitted \/ ~r.defaultPrevented)
  /\ UNCHANGED <<hasForm, pc, submitListener, readyListener, readyFired,
                 configured, now>>

\* DOMContentLoaded is dispatched at the document, once, after the script ran.
Ready ==
  /\ pc # "start"
  /\ ~readyFired
  /\ readyFired' = TRUE
  /\ IF readyListener THEN SetDoc(ReadyHandler(Doc, now))
                      ELSE UNCHANGED <<fields, status, width, timers>>
  /\ UNCHANGED <<hasForm, pc, submitListener, readyListener,
                 defaultSubmitted, configured, now>>

\* Time passes while some timer is waiting for it: up to the next due time.
Tick ==
  /\ \E i \in 1..Len(timers) :
       /\ ~timers[i].fired
       /\ timers[i].due > now
       /\ \A j \in 1..Len(timers) :
            (~timers[j].fired /\ timers[j].due > now)
              => timers[i].due <= timers[j].due
       /\ now' = timers[i].due
  /\ UNCHANGED <<hasForm, pc, submitListener, readyListener, readyFired,
                 fields, status, defaultSubmitted, configured, width, timers>>

\* The event loop runs the callback of timer i, which is due; a timer made
\* by setTimeout runs once.
Fire(i) ==
  /\ ~timers[i].fired
  /\ timers[i].due <= now
  /\ SetDoc([TimerCallback(Doc, timers[i])
               EXCEPT !.timers[i].fired = TRUE])
  /\ UNCHANGED <<hasForm, pc, submitListener, readyListener, readyFired,
                 defaultSubmitted, configured, now>>

FireSome == \E i \in 1..Len(timers) : Fire(i)

Next == RunScript \/ Edit \/ Submit \/ Ready \/ Tick \/ FireSome

Spec == Init /\ [][Next]_vars

\* The browser runs the script, dispatches the ready event and runs due
\* timers; the user is under no obligation to edit or submit.
FairSpec ==
  /\ Spec
  /\ WF_vars(RunScript)
  /\ WF_vars(Ready)
  /\ WF_vars(Tick)
  /\ \A i \in 1..MaxBars : WF_vars(i \in 1..Len(timers) /\ Fire(i))



TypeOK ==
  /\ hasForm \in BOOLEAN
  /\ pc \in {"start", "done", "error"}
  /\ fields \in [FieldIds -> Strings]
  /\ status \in {"", FailText, ThanksText}
  /\ defaultSubmitted \in BOOLEAN
  /\ Len(width) = Len(configured)

\* ------------------------------------------------------------ properties
\* A value that is not empty after trimming: it has a non-whitespace character.
NonBlank(s) == \E i \in 1..Len(s) : s[i] \notin WhiteSpace

AllNonBlank(fs) == \A f \in FieldIds : NonBlank(fs[f])

AllEmpty(fs) == \A f \in FieldIds : fs[f] = <<>>

Bars == 1..Len(configured)

\* The ready handler has run.
HandlerRan == readyFired /\ readyListener

NoneFired == \A i \in 1..Len(timers) : ~timers[i].fired

\* The ready handler has run and every timer it scheduled has fired.
AllFired == HandlerRan /\ \A i \in 1..Len(timers) : timers[i].fired

\* C1: a submit event on a form whose name, email and message are each
\* non-empty after trimming leaves the status text "Thank you for reaching
\* out!" and all three fields empty, whatever the state before it.
C1_SuccessPath ==
  [][(Submit /\ AllNonBlank(fields))
       => (status' = ThanksText /\ AllEmpty(fields'))]_vars

\* A submit has taken the success path.
C1_Witness ==
  /\ status = ThanksText
  /\ AllEmpty(fields)
  /\ ~defaultSubmitted

\* C2: a submit event on a form where some field is empty after trimming
\* (a whitespace-only value included) leaves the status text "Please fill in
\* all fields." and every field with exactly the value it had.
C2_FailurePath ==
  [][(Submit /\ ~AllNonBlank(fields))
       => (status' = FailText /\ fields' = fields)]_vars

\* A failed submit with a whitespace-only name next to two filled fields.
C2_Witness ==
  /\ status = FailText
  /\ fields["name"] = <<" ", " ">>
  /\ NonBlank(fields["email"])
  /\ NonBlank(fields["message"])

\* C3: the browser's default submission is never performed, on the success
\* path and on the failure path alike.
C3_NoDefaultSubmission == ~defaultSubmitted

\* A submit has taken the success path, and the form was filled again.
C3_Witness ==
  /\ status = ThanksText
  /\ AllNonBlank(fields)

\* C4: after the ready handler and before any timer fired every progress
\* element's width is "0%"; an element whose timer has fired has its
\* configured width; and eventually, and from then on, every element's timer
\* has fired and its width is its configured width.
C4_Safety ==
  /\ (HandlerRan /\ NoneFired) => \A b \in Bars : width[b] = ZeroWidth
  /\ \A i \in 1..Len(timers) :
       timers[i].fired => width[timers[i].bar] = configured[timers[i].bar]

C4_Restored ==
  /\ AllFired
  /\ \A b \in Bars :
       /\ \E i \in 1..Len(timers) : timers[i].bar = b
       /\ width[b] = configured[b]

C4_ResetThenRestore ==
  /\ []C4_Safety
  /\ hasForm => <>[]C4_Restored

\* An element configured "75%" was reset and its timer has restored it.
C4_Witness ==
  /\ \E i \in 1..Len(timers) :
       /\ timers[i].fired
       /\ configured[timers[i].bar] = "75%"
       /\ width[timers[i].bar] = "75%"
  /\ now >= Delay

\* C5: a submit event writes the status text and, on the success path only,
\* resets the fields; the progress elements' widths, the timers, the clock
\* and the listeners are left as they were.
C5_SubmitFrame ==
  [][Submit =>
       /\ status' \in {FailText, ThanksText}
       /\ fields' = fields \/ (AllNonBlank(fields) /\ fields' = FormDefault)
       /\ UNCHANGED <<width, timers, configured, now, readyFired,
                      submitListener, readyListener, pc, hasForm>>]_vars

\* A successful submit happened while a reset element waits for its timer.
C5_Witness ==
  /\ status = ThanksText
  /\ AllEmpty(fields)
  /\ \E i \in 1..Len(timers) :
       ~timers[i].fired /\ width[timers[i].bar] = ZeroWidth

\* C6: with no progress element in the document the ready handler completes,
\* schedules no timer and changes nothing of the document.
C6_NoBarsNoEffect ==
  [][(Ready /\ Len(width) = 0)
       => (readyFired' /\ UNCHANGED <<fields, status, width, timers,
                                      defaultSubmitted, now>>)]_vars

\* The ready handler has run on a document without progress elements.
C6_Witness == HandlerRan /\ Len(configured) = 0

\* C7: the ready handler schedules exactly one timer per progress element and
\* none is scheduled later; a timer fires at most once, taking its element
\* from "0%" to the captured width; and once an element's timer has fired the
\* element's width is never written again.
C7_OneShot ==
  [][/\ HandlerRan' =>
          \A b \in Bars :
            Cardinality({i \in 1..Len(timers') : timers'[i].bar = b}) = 1
     /\ HandlerRan => Len(timers') = Len(timers)
     /\ \A i \in 1..Len(timers) :
          /\ timers[i].fired =>
               /\ timers'[i] = timers[i]
               /\ width'[timers[i].bar] = width[timers[i].bar]
          /\ (~timers[i].fired /\ timers'[i].fired) =>
               /\ width[timers[i].bar] = ZeroWidth
               /\ width'[timers[i].bar] = timers[i].width
               /\ timers[i].width = configured[timers[i].bar]]_vars

\* Both elements of a two-element document have been restored.
C7_Witness ==
  /\ Len(configured) = 2
  /\ AllFired
  /\ Len(timers) = 2

\* C8: a timer's callback writes only its own element's width, and when all
\* timers have fired, in whatever order, every element has its own
\* configured width.
C8_IndependentTimers ==
  [][/\ \A i \in 1..Len(timers) :
          (~timers[i].fired /\ timers'[i].fired) =>
             \A b \in Bars \ {timers[i].bar} : width'[b] = width[b]
     /\ AllFired' => width' = configured]_vars

\* The second element's timer fired before the first one's, and the two
\* elements have different configured widths.
C8_Witness ==
  /\ Len(timers) = 2
  /\ configured[1] # configured[2]
  /\ timers[2].fired
  /\ ~timers[1].fired
  /\ width[2] = configured[2]
  /\ width[1] = ZeroWidth

\* C9: the ready handler, the clock and the timer callbacks leave the form
\* (fields, status text, default submission) untouched; a submit's outcome
\* is the one it has in a document without progress elements and timers,
\* and it leaves widths and timers untouched; and the final widths are the
\* configured ones whatever submits and edits were interleaved.
C9_Independent ==
  [][/\ (Ready \/ Tick \/ FireSome)
          => UNCHANGED <<fields, status, defaultSubmitted>>
     /\ Submit =>
          LET alone == SubmitHandler([Doc EXCEPT !.width = <<>>,
                                                 !.timers = <<>>])
          IN /\ fields' = alone.doc.fields
             /\ status' = alone.doc.status
             /\ defaultSubmitted' = (defaultSubmitted
                                       \/ ~alone.defaultPrevented)
             /\ UNCHANGED <<width, timers>>
     /\ AllFired' => width' = configured]_vars

\* A filled form and a failure text survive the firing of a timer while
\* another timer is still pending.
C9_Witness ==
  /\ status = FailText
  /\ fields["name"] = <<"a", " ">>
  /\ \E i, j \in 1..Len(timers) : timers[i].fired /\ ~timers[j].fired

\* C10: when the document has no "contact-form" element as the script runs,
\* the script stops at its first statement: no listener is registered, no
\* timer is ever scheduled and every width keeps its configured value.
C10_NoFormNoAnimation ==
  (~hasForm /\ pc # "start") =>
     /\ pc = "error"
     /\ ~submitListener
     /\ ~readyListener
     /\ timers = <<>>
     /\ width = configured

\* The ready event was dispatched on a page without the form that has a
\* progress element configured "75%".
C10_Witness ==
  /\ ~hasForm
  /\ readyFired
  /\ Len(configured) > 0
  /\ configured[1] = "75%"
====
